---- MODULE Spec2Model ----
(***************************************************************************)
(* Model of filemutex_windows.go: FileMutex, a cross-process read/write    *)
(* lock built on the Windows byte-range locks LockFileEx / UnlockFileEx.   *)
(*                                                                         *)
(* Every FileMutex m owns one file handle fd[m] on the one backing path.   *)
(* All locks are taken on the same one-byte region at offset 0 (the zero   *)
(* OVERLAPPED and locklow = 1, lockhigh = 0 of every call), so the kernel  *)
(* lock table is a count of exclusive and shared locks per handle.         *)
(*                                                                         *)
(* Calls through one FileMutex are sequential (pc[m] is the position of    *)
(* its one caller); calls through different FileMutex values interleave    *)
(* freely.  A blocking LockFileEx is a call step followed by a return step *)
(* that is enabled once the kernel can complete the request; the kernel    *)
(* fails a request through an invalid handle on entry, so such a call      *)
(* returns in the step it is made.                                         *)
(***************************************************************************)
EXTENDS Integers, Sequences, FiniteSets, TLC

\* ---- bounds of the model ----
NumMutex == 3
MaxShared == 1

Mutexes == 1 .. NumMutex
Handles == 1 .. NumMutex
Filenames == {"lockfile", "missingdir/lockfile"}

\* The process a FileMutex and its handle belong to: the first two that are
\* constructed share a process, the later ones are in another.
ProcOf(h) == IF h <= 2 THEN 1 ELSE 2

\* ---- constants of the program ----
lockfileFailImmediately == 1
lockfileExclusiveLock == 2
ERROR_LOCK_VIOLATION == 33
ERROR_PATH_NOT_FOUND == 3
ERROR_INVALID_HANDLE == 6
ERROR_NOT_LOCKED == 158
EINVAL == 536870951

\* ---- Go error values ----
nil == <<"nil", 0>>
AlreadyLocked == <<"AlreadyLocked", 0>>
Errno(e) == <<"Errno", e>>
IsErrno(err) == err[1] = "Errno"

VARIABLES
    fd,         \* fd[m]: the handle stored in FileMutex m, 0 while m does not exist
    open,       \* the handles that are valid in the kernel
    exclusive,  \* exclusive[h]: exclusive locks handle h holds on the region (0 or 1)
    shared,     \* shared[h]: shared locks handle h holds on the region
    pc,         \* pc[m]: "idle", or the blocking call the caller of m is inside
    last        \* the call that returned last

vars == <<fd, open, exclusive, shared, pc, last>>
locks == <<exclusive, shared>>

\* last.op, last.m, last.ret: the call, its FileMutex and its return value;
\* last.ex, last.sh: the locks its handle held when it was called.
NoCall == [op |-> "", m |-> 0, ret |-> nil, ex |-> 0, sh |-> 0]

\* ---- the kernel: byte-range locks on the region, per handle ----

HasFlag(flags, bit) == (flags \div bit) % 2 = 1

\* Variant: an exclusive request that overlooks the shared locks.
ConflictsIgnoringShared(h, flags) ==
    \E g \in Handles \ {h} : exclusive[g] > 0

\* Variant: locks owned by the process, so that a request conflicts with
\* the locks of the handles of other processes only.
ConflictsPerProcess(h, flags) ==
    IF HasFlag(flags, lockfileExclusiveLock)
    THEN \E g \in Handles : ProcOf(g) # ProcOf(h) /\ exclusive[g] + shared[g] > 0
    ELSE \E g \in Handles : ProcOf(g) # ProcOf(h) /\ exclusive[g] > 0

\* A request conflicts with the locks already on the region: an exclusive
\* request with every lock, the requester's own included; a shared request
\* with the exclusive lock of another handle only.
Conflicts(h, flags) ==
    IF HasFlag(flags, lockfileExclusiveLock)
    THEN \E g \in Handles : exclusive[g] + shared[g] > 0
    ELSE \E g \in Handles \ {h} : exclusive[g] > 0

\* Outcome of the LockFileEx system call: r1 (0 = failed), the error code
\* e1, and wait = the call cannot complete in the current state.
LockFileEx(h, flags) ==
    IF h \notin open
    THEN [r1 |-> 0, e1 |-> ERROR_INVALID_HANDLE, wait |-> FALSE]
    ELSE IF ~Conflicts(h, flags)
    THEN [r1 |-> 1, e1 |-> 0, wait |-> FALSE]
    ELSE IF HasFlag(flags, lockfileFailImmediately)
    THEN [r1 |-> 0, e1 |-> ERROR_LOCK_VIOLATION, wait |-> FALSE]
    ELSE [r1 |-> 0, e1 |-> 0, wait |-> TRUE]

\* The lock table after a granted request.
Granted(h, flags) ==
    IF HasFlag(flags, lockfileExclusiveLock)
    THEN <<[exclusive EXCEPT ![h] = 1], shared>>
    ELSE <<exclusive, [shared EXCEPT ![h] = @ + 1]>>

\* Outcome of the UnlockFileEx system call.  A handle that holds both an
\* exclusive and a shared lock on the region gives up the exclusive one
\* first; a handle without a lock on the region gets ERROR_NOT_LOCKED.
UnlockFileEx(h) ==
    IF h \notin open
    THEN [r1 |-> 0, e1 |-> ERROR_INVALID_HANDLE]
    ELSE IF exclusive[h] + shared[h] = 0
    THEN [r1 |-> 0, e1 |-> ERROR_NOT_LOCKED]
    ELSE [r1 |-> 1, e1 |-> 0]

\* The lock table after a successful UnlockFileEx.
Released(h) ==
    IF exclusive[h] > 0
    THEN <<[exclusive EXCEPT ![h] = 0], shared>>
    ELSE <<exclusive, [shared EXCEPT ![h] = @ - 1]>>

\* Variant: closing one handle drops the locks of every handle on the file.
DroppedAll(h) ==
    <<[g \in Handles |-> 0], [g \in Handles |-> 0]>>

\* The lock table after the handle is closed: the kernel drops its locks.
Dropped(h) ==
    <<[exclusive EXCEPT ![h] = 0], [shared EXCEPT ![h] = 0]>>

\* ---- the Go wrappers ----

\* Variant: the test of r1 inverted, so that a failed call reports nil and
\* a successful one an error.
SyscallErrInverted(r) ==
    IF r.r1 # 0
    THEN IF r.e1 # 0 THEN Errno(r.e1) ELSE Errno(EINVAL)
    ELSE nil

\* The error the wrappers lockFileEx and unlockFileEx make of r1 and e1.
SyscallErr(r) ==
    IF r.r1 = 0
    THEN IF r.e1 # 0 THEN Errno(r.e1) ELSE Errno(EINVAL)
    ELSE nil

lockFileEx(h, flags) == SyscallErr(LockFileEx(h, flags))

unlockFileEx(h) == SyscallErr(UnlockFileEx(h))

\* The lock table a LockFileEx call leaves behind.
AfterLock(h, flags) ==
    IF LockFileEx(h, flags).r1 # 0 THEN Granted(h, flags) ELSE locks

\* The lock table an UnlockFileEx call leaves behind.
AfterUnlock(h) ==
    IF UnlockFileEx(h).r1 # 0 THEN Released(h) ELSE locks

\* The call opname on FileMutex m returned ret, leaving lock table lk.
Returns(opname, m, ret, lk) ==
    /\ exclusive' = lk[1]
    /\ shared' = lk[2]
    /\ last' = [op |-> opname, m |-> m, ret |-> ret,
                ex |-> exclusive[fd[m]], sh |-> shared[fd[m]]]

Init ==
    /\ fd = [m \in Mutexes |-> 0]
    /\ open = {}
    /\ exclusive = [h \in Handles |-> 0]
    /\ shared = [h \in Handles |-> 0]
    /\ pc = [m \in Mutexes |-> "idle"]
    /\ last = NoCall

\* ---- construction ----

\* Variant: CreateFile without FILE_SHARE_READ|FILE_SHARE_WRITE, which fails
\* with a sharing violation while another handle on the file is open.
CreateFileUnshared(filename) ==
    IF filename # "lockfile" THEN Errno(ERROR_PATH_NOT_FOUND)
    ELSE IF open # {} THEN Errno(ERROR_LOCK_VIOLATION - 1)
    ELSE nil

\* CreateFile with OPEN_ALWAYS and FILE_SHARE_READ|FILE_SHARE_WRITE: fails
\* only when the path cannot be opened or created; the locks on the file
\* play no part.  The new handle is a value no FileMutex has used.
\* FileMutex values are numbered in the order they are constructed.
CreateFile(filename) ==
    IF filename = "lockfile" THEN nil ELSE Errno(ERROR_PATH_NOT_FOUND)

\* Variant: New returning a FileMutex also when CreateFile failed.
NewIgnoringError(m, filename) ==
    /\ fd[m] = 0
    /\ \A k \in Mutexes : k < m => fd[k] # 0
    /\ LET err == CreateFile(filename) IN
        /\ fd' = [fd EXCEPT ![m] = m]
        /\ open' = IF err # nil THEN open ELSE open \cup {m}
        /\ last' = [NoCall EXCEPT !.op = "New", !.m = m, !.ret = err]
    /\ UNCHANGED <<exclusive, shared, pc>>

New(m, filename) ==
    /\ fd[m] = 0
    /\ \A k \in Mutexes : k < m => fd[k] # 0
    /\ LET err == CreateFile(filename) IN
        /\ fd' = IF err # nil THEN fd ELSE [fd EXCEPT ![m] = m]
        /\ open' = IF err # nil THEN open ELSE open \cup {m}
        /\ last' = [NoCall EXCEPT !.op = "New", !.m = m, !.ret = err]
    /\ UNCHANGED <<exclusive, shared, pc>>

\* The permission is not used: NewWithPermission is New.
NewWithPermission(m, filename, perm) == New(m, filename)

\* ---- acquisition ----

\* Variant: TryLock without the flag that makes the kernel fail immediately.
TryLockFlagsBlocking == lockfileExclusiveLock

TryLockFlags == lockfileFailImmediately + lockfileExclusiveLock

\* Variant: TryLock handing on the error of lockFileEx untranslated.
TryLockErrUntranslated(err) == err

\* What TryLock returns for the error err of lockFileEx.
TryLockErr(err) ==
    IF err # nil
    THEN IF IsErrno(err) /\ err[2] = ERROR_LOCK_VIOLATION THEN AlreadyLocked ELSE err
    ELSE nil

TryLock(m) ==
    /\ fd[m] # 0
    /\ pc[m] = "idle"
    /\ ~LockFileEx(fd[m], TryLockFlags).wait
    /\ Returns("TryLock", m, TryLockErr(lockFileEx(fd[m], TryLockFlags)),
               AfterLock(fd[m], TryLockFlags))
    /\ UNCHANGED <<fd, open, pc>>

\* Variant: Lock asking the kernel to fail immediately, as TryLock does.
LockFlagsFailImmediately == lockfileFailImmediately + lockfileExclusiveLock

LockFlags == lockfileExclusiveLock

\* The caller of m is at the point where its call of opname returns: inside
\* the call, or making it through an invalid handle.
AtReturn(m, opname) ==
    /\ fd[m] # 0
    /\ \/ pc[m] = opname
       \/ pc[m] = "idle" /\ fd[m] \notin open

LockCall(m) ==
    /\ fd[m] \in open
    /\ pc[m] = "idle"
    /\ pc' = [pc EXCEPT ![m] = "Lock"]
    /\ UNCHANGED <<fd, open, exclusive, shared, last>>

LockReturn(m) ==
    /\ AtReturn(m, "Lock")
    /\ ~LockFileEx(fd[m], LockFlags).wait
    /\ Returns("Lock", m, lockFileEx(fd[m], LockFlags), AfterLock(fd[m], LockFlags))
    /\ pc' = [pc EXCEPT ![m] = "idle"]
    /\ UNCHANGED <<fd, open>>

\* Variant: RLock asking for the exclusive lock.
RLockFlagsExclusive == lockfileExclusiveLock

\* Variant: RLock asking the kernel to fail immediately.
RLockFlagsFailImmediately == lockfileFailImmediately

RLockFlags == 0

RLockCall(m) ==
    /\ fd[m] \in open
    /\ pc[m] = "idle"
    /\ shared[fd[m]] < MaxShared
    /\ pc' = [pc EXCEPT ![m] = "RLock"]
    /\ UNCHANGED <<fd, open, exclusive, shared, last>>

RLockReturn(m) ==
    /\ AtReturn(m, "RLock")
    /\ ~LockFileEx(fd[m], RLockFlags).wait
    /\ Returns("RLock", m, lockFileEx(fd[m], RLockFlags), AfterLock(fd[m], RLockFlags))
    /\ pc' = [pc EXCEPT ![m] = "idle"]
    /\ UNCHANGED <<fd, open>>

\* ---- release ----

\* Variant: Unlock reporting success without asking the kernel.
UnlockSkipped(m) ==
    /\ fd[m] # 0
    /\ pc[m] = "idle"
    /\ Returns("Unlock", m, nil, locks)
    /\ UNCHANGED <<fd, open, pc>>

\* Variant: RUnlock releasing a shared lock only.
RUnlockSharedOnly(m) ==
    /\ fd[m] # 0
    /\ pc[m] = "idle"
    /\ IF fd[m] \in open /\ shared[fd[m]] > 0
       THEN Returns("RUnlock", m, nil, <<exclusive, [shared EXCEPT ![fd[m]] = @ - 1]>>)
       ELSE Returns("RUnlock", m, Errno(ERROR_NOT_LOCKED), locks)
    /\ UNCHANGED <<fd, open, pc>>

\* Variant: Unlock swallowing the error of unlockFileEx.
UnlockIgnoringError(m) ==
    /\ fd[m] # 0
    /\ pc[m] = "idle"
    /\ Returns("Unlock", m, nil, AfterUnlock(fd[m]))
    /\ UNCHANGED <<fd, open, pc>>

\* Variant: Unlock repeating the unlock request until the kernel reports
\* that nothing is locked.
UnlockUntilNotLocked(m) ==
    /\ fd[m] # 0
    /\ pc[m] = "idle"
    /\ Returns("Unlock", m, unlockFileEx(fd[m]),
               IF unlockFileEx(fd[m]) = nil THEN Dropped(fd[m]) ELSE locks)
    /\ UNCHANGED <<fd, open, pc>>

Unlock(m) ==
    /\ fd[m] # 0
    /\ pc[m] = "idle"
    /\ Returns("Unlock", m, unlockFileEx(fd[m]), AfterUnlock(fd[m]))
    /\ UNCHANGED <<fd, open, pc>>

RUnlock(m) ==
    /\ fd[m] # 0
    /\ pc[m] = "idle"
    /\ Returns("RUnlock", m, unlockFileEx(fd[m]), AfterUnlock(fd[m]))
    /\ UNCHANGED <<fd, open, pc>>

\* ---- disposal ----

\* Variant: Close that closes the handle of the FileMutex in the Go value
\* only, leaving the kernel handle and its locks in place.
CloseLeavingHandle(m) ==
    /\ fd[m] # 0
    /\ pc[m] = "idle"
    /\ Returns("Close", m, unlockFileEx(fd[m]), locks)
    /\ UNCHANGED <<fd, open, pc>>

\* syscall.Close: CloseHandle invalidates the handle and drops its locks.
CloseHandle(h) ==
    IF h \in open THEN nil ELSE Errno(ERROR_INVALID_HANDLE)

Close(m) ==
    /\ fd[m] # 0
    /\ pc[m] = "idle"
    /\ LET h == fd[m]
           err == unlockFileEx(h)
       IN IF err # nil
          THEN /\ Returns("Close", m, err, locks)
               /\ open' = open
          ELSE /\ Returns("Close", m, CloseHandle(h), Dropped(h))
               /\ open' = open \ {h}
    /\ UNCHANGED <<fd, pc>>

Next ==
    \/ \E m \in Mutexes, f \in Filenames : New(m, f)
    \/ \E m \in Mutexes, f \in Filenames, perm \in {384, 420} : NewWithPermission(m, f, perm)
    \/ \E m \in Mutexes : TryLock(m)
    \/ \E m \in Mutexes : LockCall(m)
    \/ \E m \in Mutexes : LockReturn(m)
    \/ \E m \in Mutexes : RLockCall(m)
    \/ \E m \in Mutexes : RLockReturn(m)
    \/ \E m \in Mutexes : Unlock(m)
    \/ \E m \in Mutexes : RUnlock(m)
    \/ \E m \in Mutexes : Close(m)

Spec == Init /\ [][Next]_vars

TypeOK ==
    /\ fd \in [Mutexes -> {0} \cup Handles]
    /\ open \subseteq Handles
    /\ exclusive \in [Handles -> 0 .. 1]
    /\ shared \in [Handles -> 0 .. MaxShared]
    /\ pc \in [Mutexes -> {"idle", "Lock", "RLock"}]

\* ---- the claims ----

\* FileMutex m exists and its handle is valid.
Usable(m) == fd[m] # 0 /\ fd[m] \in open

\* The locks FileMutex m holds through its handle.
Ex(m) == IF fd[m] = 0 THEN 0 ELSE exclusive[fd[m]]
Sh(m) == IF fd[m] = 0 THEN 0 ELSE shared[fd[m]]

Unlocked == \A h \in Handles : exclusive[h] = 0 /\ shared[h] = 0

\* C1: mutual exclusion.  In every reachable state at most one handle holds
\* the exclusive lock, and while a handle holds it no other handle holds a
\* shared lock.
C1_MutualExclusion ==
    \A a, b \in Handles :
        a # b /\ exclusive[a] = 1 => exclusive[b] = 0 /\ shared[b] = 0

\* C1 witness: a handle holds the exclusive lock while the caller of another
\* handle is inside Lock and the caller of a third inside RLock.
C1_Witness ==
    \E a, b, c \in Mutexes :
        /\ Ex(a) = 1
        /\ Usable(b) /\ pc[b] = "Lock"
        /\ Usable(c) /\ pc[c] = "RLock"

\* C2: two distinct handles call Lock() concurrently on the unlocked path.
\* Either call can return at once; the call that returns holds the exclusive
\* lock and has returned nil; while one handle holds the exclusive lock the
\* Lock() of the other cannot return; and a handle stops holding the
\* exclusive lock only by its own release call (Unlock, its alias RUnlock)
\* or Close.
C2_LockBlocks ==
    /\ [](\A a, b \in Mutexes :
            /\ a # b /\ Usable(a) /\ Usable(b)
            /\ pc[a] = "Lock" /\ pc[b] = "Lock" /\ Unlocked
            => ENABLED LockReturn(a) /\ ENABLED LockReturn(b))
    /\ [](\A a, b \in Mutexes :
            a # b /\ Usable(b) /\ pc[b] = "Lock" /\ Ex(a) = 1
            => ~ENABLED LockReturn(b))
    /\ [][\A b \in Mutexes :
            /\ LockReturn(b) /\ Usable(b)
               => last'.ret = nil /\ Ex(b)' = 1 /\ Unlocked
            /\ Ex(b) = 1 /\ Ex(b)' = 0
               => last'.m = b /\ last'.op \in {"Unlock", "RUnlock", "Close"}
                  /\ (Unlock(b) \/ RUnlock(b) \/ Close(b))]_vars

\* C2 witness: both callers were inside Lock, one has returned nil and holds
\* the exclusive lock, the other is still inside Lock.
C2_Witness ==
    \E a, b \in Mutexes :
        /\ a # b /\ Usable(b) /\ pc[b] = "Lock"
        /\ last.op = "Lock" /\ last.m = a /\ last.ret = nil
        /\ Ex(a) = 1 /\ pc[a] = "idle"

\* C3: TryLock() through a valid handle while a different handle holds the
\* exclusive lock completes without waiting, returns AlreadyLocked (neither
\* nil nor an Errno), and changes no lock: the caller holds none, the other
\* handle keeps its exclusive lock.
C3_TryLockAlreadyLocked ==
    /\ [](\A a \in Mutexes :
            Usable(a) /\ pc[a] = "idle" /\ (\E b \in Mutexes \ {a} : Ex(b) = 1)
            => ENABLED TryLock(a))
    /\ [][\A a \in Mutexes :
            TryLock(a) /\ Usable(a) /\ (\E b \in Mutexes \ {a} : Ex(b) = 1)
            => /\ last'.ret = AlreadyLocked
               /\ last'.ret # nil /\ ~IsErrno(last'.ret)
               /\ pc'[a] = "idle"
               /\ exclusive' = exclusive /\ shared' = shared
               /\ Ex(a)' = 0 /\ Sh(a)' = 0]_vars

\* C3 witness: TryLock has returned AlreadyLocked through a valid handle
\* while another handle holds the exclusive lock.
C3_Witness ==
    /\ last.op = "TryLock" /\ last.ret = AlreadyLocked /\ Usable(last.m)
    /\ \E b \in Mutexes \ {last.m} : Ex(b) = 1

\* C4: while no handle holds the exclusive lock, RLock() through any valid
\* handle returns nil without waiting and adds a shared lock to its handle,
\* whatever shared locks the other handles hold; TryLock() through a valid
\* handle returns AlreadyLocked and changes no lock while another handle
\* holds a shared lock, and returns nil and takes the exclusive lock when no
\* handle holds any lock.
C4_SharedLocks ==
    /\ [](\A a \in Mutexes :
            Usable(a) /\ pc[a] = "RLock" /\ (\A h \in Handles : exclusive[h] = 0)
            => ENABLED RLockReturn(a))
    /\ [][\A a \in Mutexes :
            /\ RLockReturn(a) /\ Usable(a)
               => /\ last'.ret = nil
                  /\ shared' = [shared EXCEPT ![fd[a]] = @ + 1]
                  /\ exclusive' = exclusive
            /\ TryLock(a) /\ Usable(a) /\ (\E b \in Mutexes \ {a} : Sh(b) > 0)
               => /\ last'.ret = AlreadyLocked
                  /\ exclusive' = exclusive /\ shared' = shared
            /\ TryLock(a) /\ Usable(a) /\ Unlocked
               => last'.ret = nil /\ Ex(a)' = 1]_vars

\* C4 witness: two handles hold a shared lock at the same time and TryLock
\* through a third valid handle has returned AlreadyLocked.
C4_Witness ==
    /\ last.op = "TryLock" /\ last.ret = AlreadyLocked /\ Usable(last.m)
    /\ \E a, b \in Mutexes \ {last.m} : a # b /\ Sh(a) > 0 /\ Sh(b) > 0

\* C5: after Unlock() has returned nil through a handle that held the
\* exclusive lock and nothing else, the lock is fully released: the TryLock()
\* that returns next, through a second valid handle and with no call
\* returning in between, returns nil and holds the exclusive lock.
C5_UnlockThenTryLock ==
    [][\A a, b \in Mutexes :
        /\ Unlock(a) /\ Ex(a) = 1 /\ Sh(a) = 0
           => last'.ret = nil /\ Unlocked'
        /\ /\ a # b
           /\ last.op = "Unlock" /\ last.m = a /\ last.ret = nil
           /\ last.ex = 1 /\ last.sh = 0
           /\ TryLock(b) /\ Usable(b)
           => last'.ret = nil /\ Ex(b)' = 1]_vars

\* C5 witness: Unlock has just returned nil through a handle that held the
\* exclusive lock obtained before, and a second valid handle is ready to
\* call TryLock.
C5_Witness ==
    /\ last.op = "Unlock" /\ last.ret = nil /\ last.ex = 1 /\ last.sh = 0
    /\ \E b \in Mutexes \ {last.m} : Usable(b) /\ pc[b] = "idle" /\ ENABLED TryLock(b)

\* C6: Close() on a FileMutex that holds the exclusive lock returns nil,
\* leaves its handle invalid and without any lock, and the TryLock() that
\* returns next, through a separate valid handle, returns nil and holds the
\* exclusive lock.
C6_CloseReleases ==
    [][\A a, b \in Mutexes :
        /\ Close(a) /\ Ex(a) = 1
           => last'.ret = nil /\ fd[a] \notin open' /\ Unlocked'
        /\ /\ a # b
           /\ last.op = "Close" /\ last.m = a /\ last.ex = 1
           /\ TryLock(b) /\ Usable(b)
           => last'.ret = nil /\ Ex(b)' = 1]_vars

\* C6 witness: Close has just returned through a FileMutex that held the
\* exclusive lock, and a separate valid handle is ready to call TryLock.
C6_Witness ==
    /\ last.op = "Close" /\ last.ex = 1
    /\ \E b \in Mutexes \ {last.m} : Usable(b) /\ pc[b] = "idle" /\ ENABLED TryLock(b)

\* C7: when Close() has returned, whatever it returned, the handle of its
\* FileMutex is closed and holds no lock.
C7_CloseAlwaysCloses ==
    last.op = "Close" => fd[last.m] \notin open /\ Ex(last.m) = 0 /\ Sh(last.m) = 0

\* C8: no silent partial success.  A Lock(), TryLock() or RLock() that
\* returns an error (AlreadyLocked included) changes no lock of any handle;
\* one that returns nil adds exactly the lock asked for to its own handle;
\* and a handle gains a lock only in the step in which one of these calls
\* returns nil through it.
C8_NoPartialSuccess ==
    [][\A m \in Mutexes :
        /\ last'.m = m /\ last'.ret # nil
           /\ (LockReturn(m) \/ TryLock(m) \/ RLockReturn(m))
           => exclusive' = exclusive /\ shared' = shared
        /\ last'.m = m /\ last'.ret = nil
           /\ (LockReturn(m) \/ TryLock(m))
           => exclusive' = [exclusive EXCEPT ![fd[m]] = 1] /\ Ex(m) = 0 /\ shared' = shared
        /\ last'.m = m /\ last'.ret = nil
           /\ RLockReturn(m)
           => shared' = [shared EXCEPT ![fd[m]] = @ + 1] /\ exclusive' = exclusive
        /\ Ex(m)' > Ex(m) \/ Sh(m)' > Sh(m)
           => /\ LockReturn(m) \/ TryLock(m) \/ RLockReturn(m)
              /\ last'.m = m /\ last'.ret = nil]_vars

\* C8 witness: an acquisition has returned an error while another handle
\* holds a lock.
C8_Witness ==
    /\ last.op \in {"Lock", "TryLock", "RLock"} /\ last.ret # nil
    /\ Ex(last.m) = 0 /\ Sh(last.m) = 0
    /\ \E b \in Mutexes \ {last.m} : Ex(b) + Sh(b) > 0

\* C9: TryLock(), Unlock(), RUnlock() and Close() never wait.  Whatever
\* locks are held, each is enabled for every FileMutex whose caller is not
\* inside another call, and each returns in the step it is called in.
C9_NeverWait ==
    /\ [](\A m \in Mutexes :
            fd[m] # 0 /\ pc[m] = "idle"
            => /\ ENABLED TryLock(m)
               /\ ENABLED Unlock(m)
               /\ ENABLED RUnlock(m)
               /\ ENABLED Close(m))
    /\ [][\A m \in Mutexes :
            TryLock(m) \/ Unlock(m) \/ RUnlock(m) \/ Close(m)
            => pc'[m] = "idle" /\ last'.m = m
               /\ last'.op \in {"TryLock", "Unlock", "RUnlock", "Close"}]_vars

\* C9 witness: one handle holds the exclusive lock, the caller of a second
\* waits inside Lock, and TryLock through a third has returned at once.
C9_Witness ==
    \E a, b \in Mutexes :
        /\ Ex(a) = 1
        /\ pc[b] = "Lock" /\ Usable(b) /\ ~ENABLED LockReturn(b)
        /\ last.op = "TryLock" /\ last.m \notin {a, b} /\ last.ret = AlreadyLocked

\* C10: one release serves both lock kinds, and RUnlock is Unlock.  From
\* every state Unlock() and RUnlock() return the error of the one unlock
\* request and leave the lock table that request leaves; through a valid
\* handle that holds a lock they return nil and take one lock from that
\* handle (the exclusive one if it holds one, else a shared one), leaving
\* every other handle's locks as they were.
C10_UnlockIsRUnlock ==
    [][\A m \in Mutexes :
        Unlock(m) \/ RUnlock(m)
        => /\ last'.ret = unlockFileEx(fd[m])
           /\ <<exclusive', shared'>> = AfterUnlock(fd[m])
           /\ UNCHANGED <<fd, open, pc>>
           /\ \A k \in Mutexes \ {m} : Ex(k)' = Ex(k) /\ Sh(k)' = Sh(k)
           /\ Usable(m) /\ Ex(m) + Sh(m) > 0
              => /\ last'.ret = nil
                 /\ Ex(m)' + Sh(m)' = Ex(m) + Sh(m) - 1
                 /\ Ex(m)' = 0]_vars

\* C10 witness: RUnlock has returned nil through a handle that held the
\* exclusive lock and holds no lock now.
C10_Witness ==
    /\ last.op = "RUnlock" /\ last.ret = nil /\ last.ex = 1 /\ last.sh = 0
    /\ Ex(last.m) = 0 /\ Sh(last.m) = 0

\* C11: Unlock() or RUnlock() through a handle that holds no lock does not
\* return nil: it returns the error code of the kernel's unlock request as
\* an Errno (ERROR_NOT_LOCKED through a valid handle), and the locks of
\* every handle stay as they were.
C11_UnlockWithoutLock ==
    [][\A m \in Mutexes :
        (Unlock(m) \/ RUnlock(m)) /\ Ex(m) = 0 /\ Sh(m) = 0
        => /\ last'.ret # nil
           /\ last'.ret = Errno(UnlockFileEx(fd[m]).e1)
           /\ Usable(m) => last'.ret = Errno(ERROR_NOT_LOCKED)
           /\ exclusive' = exclusive /\ shared' = shared
           /\ UNCHANGED <<fd, open, pc>>]_vars

\* C11 witness: Unlock has returned ERROR_NOT_LOCKED through a valid handle
\* without a lock while another handle holds one.
C11_Witness ==
    /\ last.op = "Unlock" /\ last.ret = Errno(ERROR_NOT_LOCKED)
    /\ last.ex = 0 /\ last.sh = 0 /\ Usable(last.m)
    /\ \E b \in Mutexes \ {last.m} : Ex(b) + Sh(b) > 0

\* C12: after Close() has returned on a FileMutex, the next call through
\* that FileMutex (Lock, TryLock, RLock, Unlock, RUnlock or Close) returns
\* an error and changes no lock of any handle.
C12_UnusableAfterClose ==
    [][\A m \in Mutexes :
        /\ last.op = "Close" /\ last.m = m
        /\ last'.m = m
        /\ \/ LockReturn(m) \/ TryLock(m) \/ RLockReturn(m)
           \/ Unlock(m) \/ RUnlock(m) \/ Close(m)
        => /\ last'.ret # nil
           /\ exclusive' = exclusive /\ shared' = shared]_vars

\* C13: lock ownership is per handle, not per process.  For two FileMutex
\* values of one process, while the first holds the exclusive lock TryLock()
\* through the second returns AlreadyLocked and takes no lock, and Lock()
\* through the second cannot return; it returns only from a state in which
\* the first holds no exclusive lock.
C13_PerHandleOwnership ==
    /\ [](\A a, b \in Mutexes :
            /\ a # b /\ ProcOf(a) = ProcOf(b)
            /\ pc[b] = "Lock" /\ Usable(b) /\ Ex(a) = 1
            => ~ENABLED LockReturn(b))
    /\ [][\A a, b \in Mutexes :
            a # b /\ ProcOf(a) = ProcOf(b) /\ last'.m = b /\ Usable(b)
            => /\ TryLock(b) /\ Ex(a) = 1
                  => last'.ret = AlreadyLocked /\ Ex(b)' = 0 /\ Ex(a)' = 1
               /\ LockReturn(b) => Ex(a) = 0]_vars

\* C13 witness: two FileMutex values of one process; the first holds the
\* exclusive lock, TryLock through the second has returned AlreadyLocked and
\* its caller is now waiting inside Lock.
C13_Witness ==
    \E a, b \in Mutexes :
        /\ a # b /\ ProcOf(a) = ProcOf(b)
        /\ Ex(a) = 1 /\ Usable(b)
        /\ last.op = "TryLock" /\ last.m = b /\ last.ret = AlreadyLocked
        /\ pc[b] = "Lock" /\ ~ENABLED LockReturn(b)

\* C14: opening never serializes access.  New on the path that can be opened
\* is enabled whatever locks are held, returns nil and a FileMutex with a
\* valid handle that holds no lock, and changes no lock of any handle.
C14_NewIgnoresLocks ==
    /\ [](\A m \in Mutexes :
            fd[m] = 0 /\ (\A k \in Mutexes : k < m => fd[k] # 0)
            => ENABLED New(m, "lockfile"))
    /\ [][\A m \in Mutexes :
            New(m, "lockfile")
            => /\ last'.ret = nil
               /\ Usable(m)' /\ Ex(m)' = 0 /\ Sh(m)' = 0
               /\ exclusive' = exclusive /\ shared' = shared /\ pc' = pc]_vars

\* C14 witness: New has returned nil and a valid handle without a lock while
\* another handle holds the exclusive lock.
C14_Witness ==
    /\ last.op = "New" /\ last.ret = nil /\ Usable(last.m)
    /\ Ex(last.m) = 0 /\ Sh(last.m) = 0
    /\ \E a \in Mutexes \ {last.m} : Ex(a) = 1

C16_RLockBlocks ==
    /\ [](\A a, b \in Mutexes :
            a # b /\ pc[b] = "RLock" /\ Usable(b) /\ Ex(a) = 1
            => ~ENABLED RLockReturn(b))
    /\ [][\A a, b \in Mutexes :
            a # b /\ last'.m = b /\ RLockReturn(b) /\ Usable(b)
            => Ex(a) = 0 /\ Ex(a)' = 0 /\ last'.ret = nil /\ Sh(b)' = Sh(b) + 1]_vars

\* C16 witness: a handle holds the exclusive lock and the caller of another
\* valid handle is inside RLock and cannot return.
C16_Witness ==
    \E a, b \in Mutexes :
        /\ a # b /\ Ex(a) = 1 /\ last.op = "Lock" /\ last.m = a
        /\ pc[b] = "RLock" /\ Usable(b) /\ ~ENABLED RLockReturn(b)

\* ---- one waiting caller, holders that release ----

NoWaiter == \A k \in Mutexes : pc[k] = "idle"

\* The steps of the program while at most one caller is inside a blocking
\* call, that caller's handle holds no lock of its own, and no acquisition
\* is started while it waits.
NextOneWaiter ==
    \/ \E m \in Mutexes, f \in Filenames : New(m, f)
    \/ \E m \in Mutexes : NoWaiter /\ TryLock(m)
    \/ \E m \in Mutexes : NoWaiter /\ Ex(m) + Sh(m) = 0 /\ LockCall(m)
    \/ \E m \in Mutexes : LockReturn(m)
    \/ \E m \in Mutexes : NoWaiter /\ RLockCall(m)
    \/ \E m \in Mutexes : RLockReturn(m)
    \/ \E m \in Mutexes : Unlock(m)
    \/ \E m \in Mutexes : RUnlock(m)
    \/ \E m \in Mutexes : Close(m)

\* A holder gives up a lock, by Unlock or Close, while a caller waits in Lock.
HolderReleases(m) ==
    /\ \E w \in Mutexes : pc[w] = "Lock"
    /\ Ex(m) + Sh(m) > 0
    /\ Unlock(m) \/ Close(m)

\* The waiting caller is scheduled fairly, and every holder eventually
\* releases.
SpecOneWaiter ==
    /\ Init
    /\ [][NextOneWaiter]_vars
    /\ \A m \in Mutexes : WF_vars(LockReturn(m)) /\ WF_vars(HolderReleases(m))

\* C17: a blocked Lock() eventually returns.  With one waiting caller,
\* holders that eventually release and do not acquire again, and the waiter
\* scheduled fairly, a caller inside Lock eventually returns nil and then
\* holds the exclusive lock.
C17_LockEventuallyReturns ==
    \A w \in Mutexes :
        (pc[w] = "Lock")
        ~> (last.op = "Lock" /\ last.m = w /\ last.ret = nil
            /\ Ex(w) = 1 /\ pc[w] = "idle")

\* C17 witness: the holder of the exclusive lock has just released it by
\* Unlock or Close while a caller waits inside Lock, and that caller can now
\* return.
C17_Witness ==
    \E w \in Mutexes :
        /\ pc[w] = "Lock" /\ last.m # w
        /\ last.op \in {"Unlock", "Close"} /\ last.ret = nil /\ last.ex = 1
        /\ Unlocked /\ ENABLED LockReturn(w)

\* C18: no operation retries.  Every call has the effect and the result of
\* one request: Lock() and TryLock() add one exclusive lock to their handle
\* and return nil, or change nothing and return an error; RLock() likewise
\* with one shared lock; Unlock() and RUnlock() take one lock from their
\* handle and return nil, or change nothing and return an error; Close()
\* either returns the error of its unlock request and leaves the handle
\* open and every lock in place, or closes the handle.  No call changes the
\* locks of another handle.  The error returned is the Errno of the request,
\* except that TryLock() returns AlreadyLocked for, and only for,
\* ERROR_LOCK_VIOLATION.
C18_SingleRequest ==
    [][\A m \in Mutexes :
        last'.m = m =>
        /\ LockReturn(m) \/ TryLock(m)
           => \/ last'.ret = nil /\ Ex(m)' = Ex(m) + 1 /\ Sh(m)' = Sh(m)
              \/ last'.ret # nil /\ Ex(m)' = Ex(m) /\ Sh(m)' = Sh(m)
        /\ RLockReturn(m)
           => \/ last'.ret = nil /\ Ex(m)' = Ex(m) /\ Sh(m)' = Sh(m) + 1
              \/ last'.ret # nil /\ Ex(m)' = Ex(m) /\ Sh(m)' = Sh(m)
        /\ Unlock(m) \/ RUnlock(m)
           => \/ last'.ret = nil /\ Ex(m)' + Sh(m)' = Ex(m) + Sh(m) - 1
              \/ last'.ret # nil /\ Ex(m)' = Ex(m) /\ Sh(m)' = Sh(m)
        /\ Close(m)
           => \/ /\ last'.ret = Errno(UnlockFileEx(fd[m]).e1)
                 /\ open' = open /\ Ex(m)' = Ex(m) /\ Sh(m)' = Sh(m)
              \/ /\ last'.ret = nil /\ UnlockFileEx(fd[m]).r1 # 0
                 /\ fd[m] \in open /\ open' = open \ {fd[m]}
        /\ LockReturn(m) \/ RLockReturn(m) \/ Unlock(m) \/ RUnlock(m)
           => last'.ret = nil \/ IsErrno(last'.ret)
        /\ LockReturn(m)
           => \/ last'.ret = nil
              \/ last'.ret = Errno(LockFileEx(fd[m], lockfileExclusiveLock).e1)
        /\ TryLock(m)
           => /\ last'.ret # Errno(ERROR_LOCK_VIOLATION)
              /\ last'.ret = AlreadyLocked
                 <=> LockFileEx(fd[m], lockfileFailImmediately + lockfileExclusiveLock).e1
                     = ERROR_LOCK_VIOLATION
        /\ LockReturn(m) \/ TryLock(m) \/ RLockReturn(m)
           \/ Unlock(m) \/ RUnlock(m) \/ Close(m)
           => \A k \in Mutexes \ {m} : Ex(k)' = Ex(k) /\ Sh(k)' = Sh(k)]_vars

\* C18 witness: Unlock has returned nil through a handle that held an
\* exclusive and a shared lock, and the handle still holds the shared one.
C18_Witness ==
    /\ last.op = "Unlock" /\ last.ret = nil /\ last.ex = 1 /\ last.sh = 1
    /\ Ex(last.m) = 0 /\ Sh(last.m) = 1

\* C19: a release through one FileMutex (Unlock, RUnlock or Close) never
\* changes the locks held through the handle of another FileMutex.
C19_ReleaseIsLocal ==
    [][\A a \in Mutexes :
        last'.m = a /\ (Unlock(a) \/ RUnlock(a) \/ Close(a))
        => \A b \in Mutexes \ {a} : Ex(b)' = Ex(b) /\ Sh(b)' = Sh(b)]_vars

\* C19 witness: Close has returned nil through a handle that held a shared
\* lock while another handle still holds its shared lock.
C19_Witness ==
    /\ last.op = "Close" /\ last.ret = nil /\ last.sh = 1
    /\ \E b \in Mutexes \ {last.m} : Usable(b) /\ Sh(b) = 1

====
